---------------------------- MODULE Spec2Model ----------------------------
(***************************************************************************)
(* A model of source_layout.py: the declaration classifier                 *)
(* (the _analyze_ methods of Analyzer), the declaration tree (DeclNode)     *)
(* and the order checker (DeclNode.check_order), driven by _analyze_file.   *)
(*                                                                         *)
(* Python strings are sequences of one-character strings, so that          *)
(* startswith, endswith, ",".join and the f-string of an issue's message   *)
(* are computed.  A syntax tree node of the ast module is a record with    *)
(* a field kind (the node's class) and the fields that class carries.      *)
(***************************************************************************)
EXTENDS Integers, Sequences, FiniteSets, TLC

VARIABLES
    file,       \* the file handed to _analyze_file: does it parse, and to what
    pc,         \* "start" before _analyze_file runs, "done" after it returned
    decl_tree,  \* <<>> until _analyze_module has built a tree, then <<tree>>
    issues,     \* the list _analyze_file returned
    logged      \* the logging.error records _analyze_file wrote

vars == <<file, pc, decl_tree, issues, logged>>

-----------------------------------------------------------------------------
(* Bounds of the inputs. *)

MaxNameLen == 3
MaxDecorators == 2
MaxTargets == 2
MaxImportNames == 2
MaxFlat == 3
MaxTop == 3

-----------------------------------------------------------------------------
(* String literals of the source. *)

s_root == <<"r", "o", "o", "t">>
s_unknown == <<"u", "n", "k", "n", "o", "w", "n">>
s_staticmethod == <<"s", "t", "a", "t", "i", "c", "m", "e", "t", "h", "o", "d">>
s_property == <<"p", "r", "o", "p", "e", "r", "t", "y">>
s_setter == <<"s", "e", "t", "t", "e", "r">>
s_dunder == <<"_", "_">>
s_under == <<"_">>
s_comma == <<",">>
s_quote == <<"\"">>
s_should_not_be_after ==
    <<"\"", " ", "s", "h", "o", "u", "l", "d", " ", "n", "o", "t", " ",
      "b", "e", " ", "a", "f", "t", "e", "r", " ", "\"">>

(* str.startswith and str.endswith *)
startswith(s, prefix) ==
    /\ Len(s) >= Len(prefix)
    /\ SubSeq(s, 1, Len(prefix)) = prefix

endswith(s, suffix) ==
    /\ Len(s) >= Len(suffix)
    /\ SubSeq(s, Len(s) - Len(suffix) + 1, Len(s)) = suffix

(* sep.join(names) *)
RECURSIVE join(_, _)
join(sep, names) ==
    IF names = <<>> THEN <<>>
    ELSE IF Len(names) = 1 THEN names[1]
    ELSE names[1] \o sep \o join(sep, Tail(names))

-----------------------------------------------------------------------------
(* The data model. *)

(* class DeclType(Enum): the value of each member *)
DeclType ==
    [ROOT |-> 0, IMPORT |-> 1, CLASS_DECL |-> 2, CLASS_VAR |-> 3,
     MAGIC_METHOD |-> 4, STATIC_METHOD |-> 5, GETTER_SETTER |-> 6,
     PUBLIC_METHOD |-> 7, PRIVATE_METHOD |-> 8]

(* decl_type.value *)
value(decl_type) == DeclType[decl_type]

(* Issue.__init__ *)
Issue(line, msg) == [line |-> line, msg |-> msg]

(* DeclNode.__init__ *)
DeclNode(decl_type, name, line) ==
    [decl_type |-> decl_type, name |-> name, children |-> <<>>, line |-> line]

(* DeclNode.add_child *)
add_child(self, child) == [self EXCEPT !.children = Append(@, child)]

-----------------------------------------------------------------------------
(* The order checker. *)

(* the f-string of line 62 *)
IssueMsg(child, prev) ==
    s_quote \o child.name \o s_should_not_be_after \o prev.name \o s_quote

(* the comparison of line 59 *)
Violates(child, prev) == value(child.decl_type) < value(prev.decl_type)

(* a cursor that stays on the last sibling that was in order *)
NextPrev_resync(child, prev) ==
    IF prev # <<>> /\ Violates(child, prev[1]) THEN prev ELSE <<child>>

(* lines 57 and 65: prev = child, whether or not child was flagged *)
NextPrev(child, prev) == <<child>>

(* The first loop of check_order, lines 55-65, from child i on.  prev is
   <<>> for None and <<node>> otherwise. *)
RECURSIVE SiblingScan(_, _, _, _)
SiblingScan(children, i, prev, acc) ==
    IF i > Len(children) THEN acc
    ELSE LET child == children[i] IN
         IF prev = <<>>
         THEN SiblingScan(children, i + 1, NextPrev(child, prev), acc)
         ELSE SiblingScan(children, i + 1, NextPrev(child, prev),
                  IF Violates(child, prev[1])
                  THEN Append(acc, Issue(child.line, IssueMsg(child, prev[1])))
                  ELSE acc)

RECURSIVE check_order(_)
RECURSIVE ChildScan(_, _, _)

(* a second loop that forgets the children's issues *)
ChildScan_norec(children, i, acc) == acc

(* The second loop of check_order, lines 66-68, from child i on. *)
ChildScan(children, i, acc) ==
    IF i > Len(children) THEN acc
    ELSE ChildScan(children, i + 1, acc \o check_order(children[i]))

RECURSIVE check_order_preorder(_)
RECURSIVE PreorderScan(_, _, _, _)
(* one loop that recurses into each child as soon as it has compared it *)
PreorderScan(children, i, prev, acc) ==
    IF i > Len(children) THEN acc
    ELSE LET child == children[i]
             own == IF prev # <<>> /\ Violates(child, prev[1])
                    THEN <<Issue(child.line, IssueMsg(child, prev[1]))>>
                    ELSE <<>>
         IN  PreorderScan(children, i + 1, <<child>>,
                          acc \o own \o check_order_preorder(child))

check_order_preorder(self) == PreorderScan(self.children, 1, <<>>, <<>>)

(* DeclNode.check_order *)
check_order(self) ==
    ChildScan(self.children, 1, SiblingScan(self.children, 1, <<>>, <<>>))

-----------------------------------------------------------------------------
(* The declaration classifier and the tree builder.  isinstance(node, C) is
   node.kind = "C". *)

(* Analyzer._analyze_import, joining the names with nothing between them *)
_analyze_import_nosep(node) ==
    DeclNode("IMPORT",
             join(<<>>, [k \in 1..Len(node.names) |-> node.names[k].name]),
             node.lineno)

(* Analyzer._analyze_import *)
_analyze_import(node) ==
    DeclNode("IMPORT",
             join(s_comma, [k \in 1..Len(node.names) |-> node.names[k].name]),
             node.lineno)

(* a target's name without the Attribute branch of lines 131 and 141 *)
TargetName_noattr(target) ==
    IF target.kind = "Name" THEN target.id ELSE s_unknown

(* the name _analyze_class_var gives an expression that is a target *)
TargetName(target) ==
    IF target.kind = "Name" THEN target.id
    ELSE IF target.kind = "Attribute" THEN target.attr
    ELSE s_unknown

(* Analyzer._analyze_class_var; a node that is neither an AnnAssign nor an
   Assign falls off the end of the function, which returns None *)
_analyze_class_var(node) ==
    IF node.kind = "AnnAssign"
    THEN DeclNode("CLASS_VAR", TargetName(node.target), node.lineno)
    ELSE IF node.kind = "Assign"
    THEN IF Len(node.targets) = 0
         THEN DeclNode("CLASS_VAR", s_unknown, node.lineno)
         ELSE DeclNode("CLASS_VAR", TargetName(node.targets[1]), node.lineno)
    ELSE [returned |-> "None"]

(* the decorator branch of _analyze_function, lines 148-158: <<>> when it
   falls through, <<decl_type>> when it returns *)
DecoratorType(decorator_list) ==
    IF Len(decorator_list) > 0
    THEN LET first == decorator_list[1] IN
         IF first.kind = "Name" /\ first.id = s_staticmethod
         THEN <<"STATIC_METHOD">>
         ELSE IF first.kind = "Name" /\ first.id = s_property
         THEN <<"GETTER_SETTER">>
         ELSE IF first.kind = "Attribute" /\ first.attr = s_setter
         THEN <<"GETTER_SETTER">>
         ELSE <<>>
    ELSE <<>>

(* the name branch with the underscore test ahead of the dunder test *)
NameType_private_first(name) ==
    IF startswith(name, s_under) THEN "PRIVATE_METHOD"
    ELSE IF startswith(name, s_dunder) /\ endswith(name, s_dunder)
    THEN "MAGIC_METHOD"
    ELSE "PUBLIC_METHOD"

(* the name branch of _analyze_function, lines 159-164 *)
NameType(name) ==
    IF startswith(name, s_dunder) /\ endswith(name, s_dunder)
    THEN "MAGIC_METHOD"
    ELSE IF startswith(name, s_under)
    THEN "PRIVATE_METHOD"
    ELSE "PUBLIC_METHOD"

(* a decorator branch that looks for a marker among all the decorators *)
RECURSIVE AnyDecoratorType(_)
AnyDecoratorType(decorator_list) ==
    IF decorator_list = <<>> THEN <<>>
    ELSE LET t == DecoratorType(<<Head(decorator_list)>>) IN
         IF t # <<>> THEN t ELSE AnyDecoratorType(Tail(decorator_list))

(* Analyzer._analyze_function scanning every decorator *)
_analyze_function_all(node) ==
    LET t == AnyDecoratorType(node.decorator_list) IN
    DeclNode(IF t # <<>> THEN t[1] ELSE NameType(node.name),
             node.name, node.lineno)

(* Analyzer._analyze_function *)
_analyze_function(node) ==
    LET t == DecoratorType(node.decorator_list) IN
    DeclNode(IF t # <<>> THEN t[1] ELSE NameType(node.name),
             node.name, node.lineno)

(* a class dispatch whose last branch keeps the statement as a field of
   unknown name *)
ClassMember_unknown(child) ==
    IF child.kind = "Assign" THEN <<_analyze_class_var(child)>>
    ELSE IF child.kind = "FunctionDef" THEN <<_analyze_function(child)>>
    ELSE IF child.kind = "AnnAssign" THEN <<_analyze_class_var(child)>>
    ELSE <<DeclNode("CLASS_VAR", s_unknown, child.lineno)>>

(* the dispatch of _analyze_class, lines 113-123: <<>> for a statement that
   is skipped, <<node>> for one that is classified *)
ClassMember(child) ==
    IF child.kind = "Assign" THEN <<_analyze_class_var(child)>>
    ELSE IF child.kind = "FunctionDef" THEN <<_analyze_function(child)>>
    ELSE IF child.kind = "AnnAssign" THEN <<_analyze_class_var(child)>>
    ELSE <<>>

(* the loop of _analyze_class, from statement i on *)
RECURSIVE ClassLoop(_, _, _)
ClassLoop(body, i, decl_tree0) ==
    IF i > Len(body) THEN decl_tree0
    ELSE LET m == ClassMember(body[i]) IN
         ClassLoop(body, i + 1,
                   IF m = <<>> THEN decl_tree0 ELSE add_child(decl_tree0, m[1]))

(* Analyzer._analyze_class *)
_analyze_class(node) ==
    ClassLoop(node.body, 1, DeclNode("CLASS_DECL", node.name, node.lineno))

(* a module dispatch that also takes assignments, as the class dispatch
   does *)
ModuleMember_assign(node) ==
    IF node.kind = "ClassDef" THEN <<_analyze_class(node)>>
    ELSE IF node.kind = "FunctionDef" THEN <<_analyze_function(node)>>
    ELSE IF node.kind = "Import" THEN <<_analyze_import(node)>>
    ELSE IF node.kind = "Assign" THEN <<_analyze_class_var(node)>>
    ELSE <<>>

(* the dispatch of _analyze_module, lines 93-101 *)
ModuleMember(node) ==
    IF node.kind = "ClassDef" THEN <<_analyze_class(node)>>
    ELSE IF node.kind = "FunctionDef" THEN <<_analyze_function(node)>>
    ELSE IF node.kind = "Import" THEN <<_analyze_import(node)>>
    ELSE <<>>

(* the loop of _analyze_module, from statement i on *)
RECURSIVE ModuleLoop(_, _, _)
ModuleLoop(body, i, decl_tree0) ==
    IF i > Len(body) THEN decl_tree0
    ELSE LET m == ModuleMember(body[i]) IN
         ModuleLoop(body, i + 1,
                    IF m = <<>> THEN decl_tree0 ELSE add_child(decl_tree0, m[1]))

(* Analyzer._analyze_module *)
_analyze_module(module) ==
    ModuleLoop(module.body, 1, DeclNode("ROOT", s_root, 0))

(* what _analyze_file returns, builds and logs when ast.parse raises, had it
   reported the failure as an issue of the file *)
ParseFailed_issue(f) ==
    [issues |-> <<Issue(0, s_unknown)>>, decl_tree |-> <<>>,
     logged |-> <<"ERROR">>]

(* Analyzer._analyze_file when ast.parse raises, lines 172-174 *)
ParseFailed(f) ==
    [issues |-> <<>>, decl_tree |-> <<>>, logged |-> <<"ERROR">>]

(* Analyzer._analyze_file when ast.parse returns, lines 175-178 *)
Analyzed(f) ==
    LET tree == _analyze_module(f.module[1]) IN
    [issues |-> check_order(tree), decl_tree |-> <<tree>>,
     logged |-> <<"DEBUG", "DEBUG">>]

-----------------------------------------------------------------------------
(* The syntax trees ast.parse hands to the analyzer. *)

Name(id) == [kind |-> "Name", id |-> id]
Attribute(attr) == [kind |-> "Attribute", attr |-> attr]
Expr(kind) == [kind |-> kind]
alias(name) == [name |-> name]
Import(names, lineno) == [kind |-> "Import", names |-> names, lineno |-> lineno]
ClassDef(name, body, lineno) ==
    [kind |-> "ClassDef", name |-> name, body |-> body, lineno |-> lineno]
FunctionDef(name, decorator_list, body, lineno) ==
    [kind |-> "FunctionDef", name |-> name, decorator_list |-> decorator_list,
     body |-> body, lineno |-> lineno]
Assign(targets, lineno) ==
    [kind |-> "Assign", targets |-> targets, lineno |-> lineno]
AnnAssign(target, lineno) ==
    [kind |-> "AnnAssign", target |-> target, lineno |-> lineno]
Stmt(kind, lineno) == [kind |-> kind, lineno |-> lineno]

(* the sequences over S of length lo to hi *)
SeqsOf(S, lo, hi) == UNION {[1..k -> S] : k \in lo..hi}

(* The line of each statement, as a parser numbers them: a statement starts
   where the one before it ends, a function's line is that of its def, below
   its decorators, and a class's body follows its header. *)
RECURSIVE Size(_)
RECURSIVE SizeAll(_)
Size(stmt) ==
    IF stmt.kind = "ClassDef" THEN 1 + SizeAll(stmt.body)
    ELSE IF stmt.kind = "FunctionDef"
    THEN Len(stmt.decorator_list) + 1 + SizeAll(stmt.body)
    ELSE 1

SizeAll(body) ==
    IF body = <<>> THEN 0 ELSE Size(Head(body)) + SizeAll(Tail(body))

RECURSIVE Layout(_, _)
Layout(body, start) ==
    IF body = <<>> THEN <<>>
    ELSE LET stmt == Head(body)
             placed ==
                 IF stmt.kind = "ClassDef"
                 THEN [stmt EXCEPT !.lineno = start,
                                   !.body = Layout(@, start + 1)]
                 ELSE IF stmt.kind = "FunctionDef"
                 THEN [stmt EXCEPT
                          !.lineno = start + Len(stmt.decorator_list),
                          !.body = Layout(@, start + Len(stmt.decorator_list) + 1)]
                 ELSE [stmt EXCEPT !.lineno = start]
         IN  <<placed>> \o Layout(Tail(body), start + Size(stmt))

(* a file that parses to the module with this body *)
Parsed(body) ==
    [parses |-> TRUE, module |-> <<[body |-> Layout(body, 1)]>>,
     raises |-> <<>>]

(* a file on which ast.parse raises this exception *)
Unparsable(exception) ==
    [parses |-> FALSE, module |-> <<>>, raises |-> <<exception>>]

(* what ast.parse raises on a text: each is an Exception, which line 172
   catches *)
ParseExceptions == {"SyntaxError", "ValueError", "RecursionError", "MemoryError"}

-----------------------------------------------------------------------------
(* The files of the model. *)

Alphabet == {"_", "a"}

(* the identifiers a function is given *)
Identifiers == SeqsOf(Alphabet, 1, MaxNameLen)

id_C == <<"C">>
id_D == <<"D">>
id_f == <<"f">>
id_g == <<"_", "g">>
id_m == <<"_", "_", "m", "_", "_">>
id_p == <<"p">>
id_s == <<"s">>
id_x == <<"x">>
id_y == <<"y">>
id_os == <<"o", "s">>
id_sys == <<"s", "y", "s">>
id_os_path == <<"o", "s", ".", "p", "a", "t", "h">>

(* a function body the analyzer never reads *)
Return == <<Stmt("Return", 0)>>

(* the decorators: the three the classifier knows, and near misses *)
Decorators ==
    {Name(s_staticmethod), Name(s_property), Name(s_setter),
     Attribute(s_setter), Attribute(s_staticmethod), Expr("Call")}

(* every function definition of the bounds *)
Functions ==
    {FunctionDef(n, d, Return, 0) :
        n \in Identifiers, d \in SeqsOf(Decorators, 0, MaxDecorators)}

(* the targets of an assignment *)
Targets ==
    {Name(id_x), Name(id_y), Attribute(id_x), Expr("Subscript"), Expr("Tuple")}

(* every assignment of the bounds; an Assign without targets is one only a
   hand-built tree holds, and line 137 provides for it *)
Assignments ==
    {Assign(t, 0) : t \in SeqsOf(Targets, 0, MaxTargets)}
        \cup {AnnAssign(t, 0) : t \in Targets}

(* every import statement of the bounds *)
Imports ==
    {Import(n, 0) :
        n \in SeqsOf({alias(id_os), alias(id_sys), alias(id_os_path)},
                     1, MaxImportNames)}

(* one statement alone, at module level and as the only member of a class *)
SingleBodies ==
    LET one == Functions \cup Assignments \cup Imports IN
    {<<st>> : st \in one} \cup {<<ClassDef(id_C, <<st>>, 0)>> : st \in one}

(* one function of each method type *)
MethodReps ==
    {FunctionDef(id_m, <<>>, Return, 0),
     FunctionDef(id_s, <<Name(s_staticmethod)>>, Return, 0),
     FunctionDef(id_p, <<Name(s_property)>>, Return, 0),
     FunctionDef(id_f, <<>>,
                 <<Assign(<<Attribute(id_x)>>, 0),
                   FunctionDef(id_g, <<>>, Return, 0)>>, 0),
     FunctionDef(id_g, <<>>, Return, 0)}

(* the statements of a class body: one of each kind the class dispatch
   knows, and three it skips *)
ClassReps ==
    MethodReps \cup
    {AnnAssign(Name(id_x), 0), Stmt("Pass", 0), Import(<<alias(id_os)>>, 0),
     ClassDef(id_D, <<FunctionDef(id_f, <<>>, Return, 0),
                      AnnAssign(Name(id_y), 0)>>, 0)}

(* the statements of a module: one of each kind the module dispatch knows,
   and three it skips *)
ModuleReps ==
    MethodReps \cup
    {Import(<<alias(id_os)>>, 0), ClassDef(id_D, <<Stmt("Pass", 0)>>, 0),
     Stmt("Expr", 0), Assign(<<Name(id_x)>>, 0),
     Stmt("AsyncFunctionDef", 0)}

(* one class with up to MaxFlat members, and up to MaxFlat statements of a
   module that are no class with members *)
FlatBodies ==
    {<<ClassDef(id_C, b, 0)>> : b \in SeqsOf(ClassReps, 1, MaxFlat)}
        \cup SeqsOf(ModuleReps, 0, MaxFlat)

(* up to MaxTop imports, private functions and classes, each class with a
   pair of members that are fields or public methods *)
NestedBodies ==
    LET members == {AnnAssign(Name(id_x), 0),
                    FunctionDef(id_f, <<>>, Return, 0)}
        classes == {ClassDef(id_C, <<a, b>>, 0) : a \in members, b \in members}
    IN  SeqsOf(classes \cup {Import(<<alias(id_os)>>, 0),
                             FunctionDef(id_g, <<>>, Return, 0)}, 0, MaxTop)

id_Dog == <<"D", "o", "g">>
id_from_dict == <<"f", "r", "o", "m", "_", "d", "i", "c", "t">>
id_name == <<"n", "a", "m", "e">>
id_init == <<"_", "_", "i", "n", "i", "t", "_", "_">>
id_bark == <<"b", "a", "r", "k">>
id_repr == <<"_", "_", "r", "e", "p", "r", "_", "_">>
id_age == <<"a", "g", "e">>

(* examples/example.py, as ast.parse reads it *)
ExampleFile ==
    [parses |-> TRUE, raises |-> <<>>,
     module |-> <<[body |-> <<
        ClassDef(id_Dog, <<
            FunctionDef(id_from_dict, <<Name(s_staticmethod)>>,
                        <<Stmt("Return", 4)>>, 3),
            AnnAssign(Name(id_name), 6),
            FunctionDef(id_init, <<>>,
                        <<Assign(<<Attribute(id_name)>>, 9),
                          Assign(<<Attribute(id_age)>>, 10)>>, 8),
            FunctionDef(id_bark, <<>>, <<Stmt("Expr", 13)>>, 12),
            FunctionDef(id_repr, <<>>, <<Stmt("Return", 16)>>, 15),
            AnnAssign(Name(id_age), 18)
        >>, 1) >>]>>]

Files ==
    {Parsed(b) : b \in SingleBodies \cup FlatBodies \cup NestedBodies}
        \cup {ExampleFile} \cup {Unparsable(e) : e \in ParseExceptions}

-----------------------------------------------------------------------------
(* The run of _analyze_file on one file. *)

Init ==
    /\ file \in Files
    /\ pc = "start"
    /\ decl_tree = <<>>
    /\ issues = <<>>
    /\ logged = <<>>

(* what _analyze_file leaves behind when it returns *)
Returns(r) ==
    /\ issues' = r.issues
    /\ decl_tree' = r.decl_tree
    /\ logged' = logged \o r.logged
    /\ pc' = "done"
    /\ UNCHANGED file

(* _analyze_file on a file ast.parse rejects *)
ParseError ==
    /\ pc = "start"
    /\ ~file.parses
    /\ Returns(ParseFailed(file))

(* _analyze_file on a file ast.parse accepts *)
AnalyzeFile ==
    /\ pc = "start"
    /\ file.parses
    /\ Returns(Analyzed(file))

Next == ParseError \/ AnalyzeFile

Spec == Init /\ [][Next]_vars

-----------------------------------------------------------------------------
(* What the properties speak of. *)

Done == pc = "done"
Built == pc = "done" /\ decl_tree # <<>>
Tree == decl_tree[1]
Body == file.module[1].body

Range(seq) == {seq[k] : k \in DOMAIN seq}

(* a node and every node below it *)
RECURSIVE Nodes(_)
Nodes(n) == {n} \cup UNION {Nodes(c) : c \in Range(n.children)}

(* the lines of the nodes below n *)
LinesBelow(n) == {d.line : d \in Nodes(n) \ {n}}

(* the lines of the declarations in the subtree of c, c included *)
LinesOf(c) == {d.line : d \in Nodes(c)}

(* the children of parent that stand for the statement of this line *)
ChildrenAt(parent, line) == {c \in Range(parent.children) : c.line = line}

(* the statements of a body that are of one of these kinds *)
OfKind(body, kinds) == {st \in Range(body) : st.kind \in kinds}

(* the message the specification gives the pair (prev, c) *)
ExpectedMsg(c, prev) ==
    <<"\"">> \o c.name \o
    <<"\"", " ", "s", "h", "o", "u", "l", "d", " ", "n", "o", "t", " ",
      "b", "e", " ", "a", "f", "t", "e", "r", " ", "\"">>
    \o prev.name \o <<"\"">>

(* the rank of a declaration type in the canonical order of the
   specification *)
rank(t) ==
    CASE t = "ROOT" -> 0
      [] t = "IMPORT" -> 1
      [] t = "CLASS_DECL" -> 2
      [] t = "CLASS_VAR" -> 3
      [] t = "MAGIC_METHOD" -> 4
      [] t = "STATIC_METHOD" -> 5
      [] t = "GETTER_SETTER" -> 6
      [] t = "PUBLIC_METHOD" -> 7
      [] t = "PRIVATE_METHOD" -> 8

-----------------------------------------------------------------------------
(* C1: at every node of a checked tree, for every pair of adjacent children
   (prev, c), check_order of that node holds the issue with the line of c
   and the message naming c and prev if and only if the rank of c is below
   the rank of prev; no other issue carries the line of c, so c is never
   reported against a sibling other than the one just before it. *)
C1_AdjacentPairs ==
    Built =>
        \A n \in Nodes(Tree) :
            LET out == check_order(n) IN
            \A i \in 2..Len(n.children) :
                LET c == n.children[i]
                    prev == n.children[i - 1]
                    at == {k \in DOMAIN out : out[k].line = c.line}
                IN  /\ (rank(c.decl_type) < rank(prev.decl_type))
                            <=> (at # {})
                    /\ \A k \in at : out[k] = [line |-> c.line,
                                               msg |-> ExpectedMsg(c, prev)]
                    /\ Cardinality(at) <= 1

(* C1 witness: three siblings in strictly descending rank, the third
   reported against the second, which was itself reported. *)
C1_Witness ==
    /\ Built
    /\ \E n \in Nodes(Tree) : \E i \in 3..Len(n.children) :
        /\ rank(n.children[i].decl_type) < rank(n.children[i - 1].decl_type)
        /\ rank(n.children[i - 1].decl_type) < rank(n.children[i - 2].decl_type)
        /\ \E k \in DOMAIN issues :
            /\ issues[k].line = n.children[i].line
            /\ issues[k].msg = ExpectedMsg(n.children[i], n.children[i - 1])
        /\ \E k \in DOMAIN issues : issues[k].line = n.children[i - 1].line

(* C2: in check_order of any node, an issue of the node's own children
   never comes after an issue of a declaration deeper in the tree, and the
   issues of two children's subtrees come in the order of those children. *)
C2_OwnBeforeDescendants ==
    Built =>
        \A n \in Nodes(Tree) :
            LET out == check_order(n)
                own == {c.line : c \in Range(n.children)}
                sub(l) == CHOOSE k \in DOMAIN n.children :
                              l \in LinesBelow(n.children[k])
            IN  /\ \A a \in DOMAIN out : out[a].line \in LinesBelow(n)
                /\ \A a, b \in DOMAIN out :
                    a < b =>
                        /\ out[b].line \in own => out[a].line \in own
                        /\ (out[a].line \notin own /\ out[b].line \notin own)
                                => sub(out[a].line) <= sub(out[b].line)

(* C2 witness: an issue of the root's own children stands before an issue
   from inside a class that has a smaller line, and two classes both have
   issues. *)
C2_Witness ==
    /\ Built
    /\ \E a, b \in DOMAIN issues :
        /\ a < b
        /\ issues[a].line > issues[b].line
        /\ ChildrenAt(Tree, issues[a].line) # {}
        /\ ChildrenAt(Tree, issues[b].line) = {}
    /\ \E i, j \in DOMAIN Tree.children :
        /\ i < j
        /\ check_order(Tree.children[i]) # <<>>
        /\ check_order(Tree.children[j]) # <<>>

(* C3: the shipped example yields exactly three issues, in this order: name
   at line 6 against from_dict, __repr__ at line 15 against bark, age at
   line 18 against __repr__; the module level adds none. *)
C3_Example ==
    (Done /\ file = ExampleFile) =>
        issues = <<
            [line |-> 6, msg |->
        <<"\"", "n", "a", "m", "e", "\"", " ", "s", "h", "o", "u", "l",
          "d", " ", "n", "o", "t", " ", "b", "e", " ", "a", "f", "t", "e",
          "r", " ", "\"", "f", "r", "o", "m", "_", "d", "i", "c", "t",
          "\"">>],
            [line |-> 15, msg |->
        <<"\"", "_", "_", "r", "e", "p", "r", "_", "_", "\"", " ", "s",
          "h", "o", "u", "l", "d", " ", "n", "o", "t", " ", "b", "e", " ",
          "a", "f", "t", "e", "r", " ", "\"", "b", "a", "r", "k", "\"">>],
            [line |-> 18, msg |->
        <<"\"", "a", "g", "e", "\"", " ", "s", "h", "o", "u", "l", "d",
          " ", "n", "o", "t", " ", "b", "e", " ", "a", "f", "t", "e", "r",
          " ", "\"", "_", "_", "r", "e", "p", "r", "_", "_", "\"">>] >>

(* C3 witness: the example has been analyzed, into one class of six
   members. *)
C3_Witness ==
    /\ Done
    /\ file = ExampleFile
    /\ Len(Tree.children) = 1
    /\ Len(Tree.children[1].children) = 6
    /\ Len(issues) = 3

(* the type the specification gives a function definition: the first
   decorator decides when it is a marker, the name otherwise *)
ExpectedFunctionType(st) ==
    LET d == st.decorator_list
        n == st.name
        decorated == Len(d) > 0
        dunder == /\ Len(n) >= 2
                  /\ n[1] = "_" /\ n[2] = "_"
                  /\ n[Len(n) - 1] = "_" /\ n[Len(n)] = "_"
    IN  CASE decorated /\ d[1] = Name(s_staticmethod) -> "STATIC_METHOD"
          [] decorated /\ d[1] = Name(s_property) -> "GETTER_SETTER"
          [] decorated /\ d[1] = Attribute(s_setter) -> "GETTER_SETTER"
          [] OTHER -> IF dunder THEN "MAGIC_METHOD"
                      ELSE IF n[1] = "_" THEN "PRIVATE_METHOD"
                      ELSE "PUBLIC_METHOD"

(* the function definitions the builder reads, each with the node that
   holds the declarations of its scope *)
FunctionSites ==
    {<<st, Tree>> : st \in OfKind(Body, {"FunctionDef"})}
        \cup UNION {{<<st, cn>> : st \in OfKind(cl.body, {"FunctionDef"}),
                                 cn \in ChildrenAt(Tree, cl.lineno)} :
                    cl \in OfKind(Body, {"ClassDef"})}

(* C4: every function definition of a module or of a class body becomes
   one node of its scope, with the function's name and line and the type
   that its first decorator, or else its name, decides: staticmethod,
   property, x.setter, dunder name, underscore name, public, in this
   priority; later decorators change nothing. *)
C4_FunctionType ==
    Built =>
        \A site \in FunctionSites :
            LET st == site[1] IN
            ChildrenAt(site[2], st.lineno) =
                {[decl_type |-> ExpectedFunctionType(st), name |-> st.name,
                  children |-> <<>>, line |-> st.lineno]}

(* C4 witness: a function whose first decorator is no marker and whose
   second is staticmethod is a private method by its name; or a dunder
   function under staticmethod is a static method. *)
C4_Witness ==
    /\ Built
    /\ \E site \in FunctionSites :
        LET st == site[1] IN
        \E c \in ChildrenAt(site[2], st.lineno) :
            \/ /\ Len(st.decorator_list) >= 2
               /\ st.decorator_list[1] = Expr("Call")
               /\ st.decorator_list[2] = Name(s_staticmethod)
               /\ st.name = <<"_", "a">>
               /\ c.decl_type = "PRIVATE_METHOD"
            \/ /\ Len(st.decorator_list) >= 1
               /\ st.decorator_list[1] = Name(s_staticmethod)
               /\ st.name = <<"_", "_">>
               /\ c.decl_type = "STATIC_METHOD"

(* the kinds of statement some classification rule recognizes *)
ClassifiedKinds == {"Import", "ClassDef", "FunctionDef", "Assign", "AnnAssign"}

(* a body without its statements of unrecognized kind, in class bodies
   too *)
Recognized(body) ==
    LET keep == SelectSeq(body, LAMBDA st : st.kind \in ClassifiedKinds) IN
    [k \in DOMAIN keep |->
        IF keep[k].kind = "ClassDef"
        THEN [keep[k] EXCEPT !.body =
                 SelectSeq(@, LAMBDA st : st.kind \in ClassifiedKinds)]
        ELSE keep[k]]

(* the statements of unrecognized kind, of the module and of its classes *)
Unrecognized ==
    {st \in Range(Body) : st.kind \notin ClassifiedKinds}
        \cup UNION {{st \in Range(cl.body) : st.kind \notin ClassifiedKinds} :
                    cl \in OfKind(Body, {"ClassDef"})}

(* C5: a statement of unrecognized kind, in a module or in a class body,
   leaves no node and no issue: the tree and the issues are those of the
   file without these statements. *)
C5_SilentSkip ==
    Built =>
        /\ Tree = _analyze_module([body |-> Recognized(Body)])
        /\ issues = check_order(_analyze_module([body |-> Recognized(Body)]))
        /\ \A st \in Unrecognized :
            /\ st.lineno \notin LinesOf(Tree)
            /\ \A k \in DOMAIN issues : issues[k].line # st.lineno

(* C5 witness: a statement of unrecognized kind stands between two
   declarations, and the later one is reported against the earlier one. *)
C5_Witness ==
    /\ Built
    /\ \E n \in Nodes(Tree) : \E i \in 2..Len(n.children) :
        /\ \E st \in Unrecognized :
            /\ n.children[i - 1].line < st.lineno
            /\ st.lineno < n.children[i].line
        /\ \E k \in DOMAIN issues :
            issues[k] = [line |-> n.children[i].line,
                         msg |-> ExpectedMsg(n.children[i], n.children[i - 1])]

(* the name the specification gives the field a target declares *)
ExpectedTargetName(targets) ==
    IF targets = <<>> THEN <<"u", "n", "k", "n", "o", "w", "n">>
    ELSE CASE targets[1].kind = "Name" -> targets[1].id
           [] targets[1].kind = "Attribute" -> targets[1].attr
           [] OTHER -> <<"u", "n", "k", "n", "o", "w", "n">>

(* the assignments in the body of a class of the module, each with the
   class's node *)
FieldSites ==
    UNION {{<<st, cn>> : st \in OfKind(cl.body, {"Assign", "AnnAssign"}),
                        cn \in ChildrenAt(Tree, cl.lineno)} :
           cl \in OfKind(Body, {"ClassDef"})}

(* C6: every plain or annotated assignment of a class body becomes one
   CLASS_VAR node of the class, named by its (first) target: the
   identifier, the trailing attribute name, or "unknown" for no target or a
   target of another shape. *)
C6_ClassVar ==
    Built =>
        /\ \A cl \in OfKind(Body, {"ClassDef"}) :
            Cardinality(ChildrenAt(Tree, cl.lineno)) = 1
        /\ \A site \in FieldSites :
            LET st == site[1] IN
            ChildrenAt(site[2], st.lineno) =
                {[decl_type |-> "CLASS_VAR",
                  name |-> ExpectedTargetName(
                      IF st.kind = "AnnAssign" THEN <<st.target>>
                      ELSE st.targets),
                  children |-> <<>>, line |-> st.lineno]}

(* C6 witness: an assignment without targets, or one whose first target is
   neither an identifier nor an attribute while a later one is an
   identifier, is a field named "unknown". *)
C6_Witness ==
    /\ Built
    /\ \E site \in FieldSites :
        LET st == site[1] IN
        /\ st.kind = "Assign"
        /\ \/ st.targets = <<>>
           \/ st.targets = <<Expr("Tuple"), Name(id_x)>>
        /\ \E c \in ChildrenAt(site[2], st.lineno) :
            c.name = <<"u", "n", "k", "n", "o", "w", "n">>

(* C7: when ast.parse raises, _analyze_file returns the empty list and
   builds no tree, which is the list a file without statements gets. *)
C7_ParseFailure ==
    (Done /\ ~file.parses) =>
        /\ issues = <<>>
        /\ decl_tree = <<>>
        /\ issues = Analyzed(Parsed(<<>>)).issues

(* C7 witness: _analyze_file has returned on a file that does not parse,
   having logged the one error. *)
C7_Witness ==
    /\ Done
    /\ ~file.parses
    /\ file.raises = <<"SyntaxError">>
    /\ logged = <<"ERROR">>

(* s is the names joined by commas: each name at its place in clause
   order, a comma between two names, nothing else *)
IsCommaJoined(s, names) ==
    LET RECURSIVE off(_)
        off(i) == IF i = 1 THEN 0 ELSE off(i - 1) + Len(names[i - 1].name) + 1
    IN  /\ Len(s) = off(Len(names) + 1) - 1
        /\ \A i \in DOMAIN names :
            /\ SubSeq(s, off(i) + 1, off(i) + Len(names[i].name)) = names[i].name
            /\ i > 1 => s[off(i)] = ","

(* the import statements in the body of a class of the module, each with
   the class's node *)
ClassImportSites ==
    UNION {{<<st, cn>> : st \in OfKind(cl.body, {"Import"}),
                        cn \in ChildrenAt(Tree, cl.lineno)} :
           cl \in OfKind(Body, {"ClassDef"})}

(* an import statement has become exactly one IMPORT child of this node,
   with the imported names joined by commas and the statement's line *)
IsImportChild(st, parent) ==
    \E c \in ChildrenAt(parent, st.lineno) :
        /\ ChildrenAt(parent, st.lineno) = {c}
        /\ c.decl_type = "IMPORT"
        /\ IsCommaJoined(c.name, st.names)
        /\ c.children = <<>>

(* C8 as stated: an import becomes an IMPORT child of its scope's node, of
   ROOT at module level and of the class's CLASS_DECL node in a class
   body. *)
C8_ImportInEveryScope ==
    Built =>
        /\ \A st \in OfKind(Body, {"Import"}) : IsImportChild(st, Tree)
        /\ \A site \in ClassImportSites : IsImportChild(site[1], site[2])

(* C8 as amended: an import at module level becomes an IMPORT child of
   ROOT, named by its imported names joined by commas in clause order, with
   the statement's line; an import in a class body is skipped: the class's
   node gets no child for it and no IMPORT node lies below a class. *)
C8_ImportAtModuleLevel ==
    Built =>
        /\ \A st \in OfKind(Body, {"Import"}) : IsImportChild(st, Tree)
        /\ \A site \in ClassImportSites :
            ChildrenAt(site[2], site[1].lineno) = {}
        /\ \A cn \in Range(Tree.children) : \A d \in Nodes(cn) \ {cn} :
            d.decl_type # "IMPORT"

(* C8 witness: an import of two names at module level is one IMPORT node,
   or a class whose body holds an import has no child for it. *)
C8_Witness ==
    /\ Built
    /\ \/ \E st \in OfKind(Body, {"Import"}) :
            /\ Len(st.names) = 2
            /\ st.names[1] # st.names[2]
            /\ IsImportChild(st, Tree)
       \/ \E site \in ClassImportSites :
            /\ ChildrenAt(site[2], site[1].lineno) = {}
            /\ site[2].children # <<>>

(* the lines of a node's children increase: they are in source order *)
InSourceOrder(n) ==
    \A i, j \in DOMAIN n.children : i < j => n.children[i].line < n.children[j].line

(* C9: a built tree is a ROOT node of line 0, the only ROOT; its children
   stand in source order and none is a CLASS_VAR; only a CLASS_DECL child
   of ROOT has children, themselves leaves and in source order; so no node
   is deeper than two levels and a CLASS_VAR is a child of a CLASS_DECL. *)
C9_TreeShape ==
    Built =>
        /\ Tree.decl_type = "ROOT"
        /\ Tree.line = 0
        /\ InSourceOrder(Tree)
        /\ \A c \in Range(Tree.children) :
            /\ c.decl_type \notin {"ROOT", "CLASS_VAR"}
            /\ c.children # <<>> => c.decl_type = "CLASS_DECL"
            /\ InSourceOrder(c)
            /\ \A g \in Range(c.children) :
                /\ g.children = <<>>
                /\ g.decl_type # "ROOT"
        /\ \A n \in Nodes(Tree) : \A c \in Range(n.children) :
            c.decl_type = "CLASS_VAR" => n.decl_type = "CLASS_DECL"

(* C9 witness: a class with a field, whose body also holds a class with
   members of its own, or a method whose body holds statements the
   classifier knows. *)
C9_Witness ==
    /\ Built
    /\ \E cl \in OfKind(Body, {"ClassDef"}) :
        /\ \E st \in Range(cl.body) :
            \/ st.kind = "ClassDef" /\ Len(st.body) >= 2
            \/ /\ st.kind = "FunctionDef"
               /\ OfKind(st.body, {"Assign", "FunctionDef"}) # {}
        /\ \E cn \in ChildrenAt(Tree, cl.lineno) :
            \E g \in Range(cn.children) : g.decl_type = "CLASS_VAR"

(* the children of n are sorted: no earlier one outranks a later one *)
Sorted(n) ==
    \A i, j \in DOMAIN n.children :
        i < j => rank(n.children[i].decl_type) <= rank(n.children[j].decl_type)

(* the number of children of the nodes of S that are not a first child *)
RECURSIVE NonFirst(_)
NonFirst(S) ==
    IF S = {} THEN 0
    ELSE LET n == CHOOSE x \in S : TRUE IN
         (IF Len(n.children) > 0 THEN Len(n.children) - 1 ELSE 0)
             + NonFirst(S \ {n})

(* C10: check_order of a node is empty exactly when the children of every
   node of its subtree are sorted by rank; no declaration is reported
   twice, a first child is never reported, and there are at most as many
   issues as children that are not a first child. *)
C10_EmptyIffSorted ==
    Built =>
        \A n \in Nodes(Tree) :
            LET out == check_order(n) IN
            /\ (out = <<>>) <=> (\A d \in Nodes(n) : Sorted(d))
            /\ \A a, b \in DOMAIN out : a # b => out[a].line # out[b].line
            /\ \A d \in Nodes(n) :
                d.children # <<>> =>
                    \A a \in DOMAIN out : out[a].line # d.children[1].line
            /\ Len(out) <= NonFirst(Nodes(n))

(* C10 witness: a tree without issues in which a node has three sorted
   children of different ranks and a class has two; and a tree in which
   every child that is not a first child is reported. *)
C10_Witness ==
    /\ Built
    /\ \/ /\ issues = <<>>
          /\ Len(Tree.children) >= 3
          /\ rank(Tree.children[1].decl_type) < rank(Tree.children[3].decl_type)
          /\ \E c \in Range(Tree.children) : Len(c.children) >= 2
       \/ /\ Len(issues) >= 3
          /\ Len(issues) = NonFirst(Nodes(Tree))

=============================================================================
